---- MODULE Spec2Model ----
(***************************************************************************)
(* A model of ryzen-wattage (src/src/main.rs): topology discovery in       *)
(* Cpu::new, the two-shot MSR energy sampling of Cpu::power and the        *)
(* "Cores Total" figure of main.                                           *)
(*                                                                         *)
(* Text files are sequences of one-character strings, so that trimming,    *)
(* splitting and parsing are computed as the code computes them.  f64      *)
(* values are exact rationals [n, d] (every value of the model is a small  *)
(* dyadic rational, which f64 represents exactly), plus inf, -inf and NaN  *)
(* for a division by 0.0.                                                  *)
(***************************************************************************)
EXTENDS Integers, Sequences, FiniteSets, TLC

VARIABLES
    pc,                  \* position of the running function
    outcome,             \* "running", "Ok", "Err" (an io::Error returned), "panic"
    smt_status,          \* content of /sys/devices/system/cpu/smt/control
    cores_online,        \* content of /sys/devices/system/cpu/online
    core_cpus_list,      \* per online cpu, the ids its topology/core_cpus_list names
    fs_trace,            \* the sysfs files read so far, in order
    smt_enabled,         \* Cpu.smt_enabled
    core_count,          \* Cpu.core_count
    physical_core_count, \* Cpu.physical_core_count
    core_msr,            \* Cpu.core_msr : BTreeMap<u32, Msr>
    cores,               \* get_physical_cores: the BTreeSet of minimum ids
    core_id,             \* get_physical_cores: the loop variable
    power_unit_reg,      \* hardware: the value of the power-unit MSR
    duration,            \* Cpu::power's argument
    cursor,              \* Cpu::power: the register read in progress
    raw,                 \* Msr::*_energy: the raw counter just read
    sample,              \* Cpu::power: the before and after energies
    result,              \* Cpu::power's return value
    trace,               \* register reads and sleeps so far, in order
    total                \* main: the "Cores Total" figure

vars == <<pc, outcome, smt_status, cores_online, core_cpus_list, fs_trace,
          smt_enabled, core_count, physical_core_count, core_msr, cores,
          core_id, power_unit_reg, duration, cursor, raw, sample, result,
          trace, total>>

topology_vars == <<smt_status, cores_online, core_cpus_list, fs_trace,
                   smt_enabled, core_count, physical_core_count, core_msr,
                   cores, core_id>>

power_vars == <<power_unit_reg, duration, cursor, raw, sample, result,
                trace, total>>

\* ------------------------------------------------------------- bounds

\* Highest logical core id an online-range descriptor names.
MaxCoreId == 3

\* Most physical cores of a Cpu whose power is sampled.
MaxPhysical == 2

\* ------------------------------------------------------------- text

Digits == <<"0", "1", "2", "3", "4", "5", "6", "7", "8", "9">>

IsDigit(c) == \E i \in 1..10 : Digits[i] = c

DigitVal(c) == (CHOOSE i \in 1..10 : Digits[i] = c) - 1

\* char::is_whitespace, for the characters the model's files hold.
IsWhitespace(c) == c \in {" ", "\n", "\t", "\r"}

RECURSIVE TrimEnd(_)
TrimEnd(s) ==
    IF s # <<>> /\ IsWhitespace(s[Len(s)])
    THEN TrimEnd(SubSeq(s, 1, Len(s) - 1))
    ELSE s

\* Index of the first occurrence of c in s, 0 when there is none.
Find(s, c) ==
    IF \E i \in 1..Len(s) : s[i] = c
    THEN CHOOSE i \in 1..Len(s) : s[i] = c /\ \A j \in 1..(i - 1) : s[j] # c
    ELSE 0

\* str::split_once: None, or the text before and after the first delimiter.
SplitOnce(s, c) ==
    LET i == Find(s, c) IN
    IF i = 0
    THEN [some |-> FALSE]
    ELSE [some |-> TRUE,
          head |-> SubSeq(s, 1, i - 1),
          tail |-> SubSeq(s, i + 1, Len(s))]

\* str::split: the pieces between delimiters, at least one, possibly empty.
RECURSIVE Split(_, _)
Split(s, c) ==
    LET i == Find(s, c) IN
    IF i = 0
    THEN <<s>>
    ELSE <<SubSeq(s, 1, i - 1)>> \o Split(SubSeq(s, i + 1, Len(s)), c)

RECURSIVE DigitsValue(_)
DigitsValue(s) ==
    IF s = <<>> THEN 0
    ELSE 10 * DigitsValue(SubSeq(s, 1, Len(s) - 1)) + DigitVal(s[Len(s)])

\* str::parse::<u32>: an optional '+', then one or more decimal digits.  The
\* model's files hold at most two digits, far from u32::MAX.
ParseU32(s) ==
    LET body == IF s # <<>> /\ s[1] = "+" THEN Tail(s) ELSE s IN
    IF body # <<>> /\ \A i \in 1..Len(body) : IsDigit(body[i])
    THEN [ok |-> TRUE, val |-> DigitsValue(body)]
    ELSE [ok |-> FALSE]

\* The decimal text of a number, as the kernel writes it.
RECURSIVE Decimal(_)
Decimal(n) ==
    IF n < 10 THEN <<Digits[n + 1]>>
    ELSE Decimal(n \div 10) \o <<Digits[(n % 10) + 1]>>

RECURSIVE JoinIds(_)
JoinIds(ids) ==
    IF Len(ids) = 1 THEN Decimal(ids[1])
    ELSE Decimal(ids[1]) \o <<",">> \o JoinIds(Tail(ids))

\* A sibling-list file listing ids, comma-separated.
CpusListFile(ids) == JoinIds(ids) \o <<"\n">>

\* A file holding the range "lo-hi".
RangeFile(lo, hi) == Decimal(lo) \o <<"-">> \o Decimal(hi) \o <<"\n">>

RECURSIVE SeqMin(_)
SeqMin(s) ==
    IF Len(s) = 1 THEN s[1]
    ELSE LET m == SeqMin(Tail(s)) IN IF s[1] < m THEN s[1] ELSE m

SetMin(S) == CHOOSE m \in S : \A x \in S : m <= x

\* The elements of a set of numbers in ascending order (BTreeMap iteration).
RECURSIVE Ascending(_)
Ascending(S) ==
    IF S = {} THEN <<>>
    ELSE <<SetMin(S)>> \o Ascending(S \ {SetMin(S)})

\* ------------------------------------------------------------- sysfs

\* What /sys/devices/system/cpu/smt/control may hold.
SmtControlFiles ==
    { <<"o", "n", "\n">>,
      <<"o", "n">>,
      <<"o", "f", "f", "\n">>,
      <<"f", "o", "r", "c", "e", "o", "f", "f", "\n">>,
      <<"n", "o", "t", "s", "u", "p", "p", "o", "r", "t", "e", "d", "\n">>,
      <<"n", "o", "t", "i", "m", "p", "l", "e", "m", "e", "n", "t", "e", "d", "\n">> }

\* Online-range files of the form "0-N".
ValidOnlineFiles == { RangeFile(0, n) : n \in 0..MaxCoreId }

\* Online-range files that are not of the form "lo-hi": a single id, a
\* fragmented range, a missing or non-numeric upper end, an empty file.
MalformedOnlineFiles ==
    { <<"0", "\n">>,
      <<"0", "-", "3", ",", "6", "-", "7", "\n">>,
      <<"0", "-", "\n">>,
      <<"0", "-", "x", "\n">>,
      <<"0", ",", "2", "\n">>,
      <<"\n">> }

OnlineFiles == ValidOnlineFiles \cup MalformedOnlineFiles \cup {RangeFile(1, MaxCoreId)}

\* The ways n logical cores fold onto physical cores (sibling groups of any
\* width): each core is given the lowest id of its group.
Layouts(n) ==
    { lowest \in [0..(n - 1) -> 0..(n - 1)] :
        \A c \in 0..(n - 1) : lowest[c] <= c /\ lowest[lowest[c]] = lowest[c] }

\* The sibling list of every core under a layout, in ascending order.
SiblingLists(lowest) ==
    [c \in DOMAIN lowest |-> Ascending({ x \in DOMAIN lowest : lowest[x] = lowest[c] })]

\* A list of two or more adjacent ids, which the kernel may also write "lo-hi".
IsRun(ids) == Len(ids) >= 2 /\ ids[Len(ids)] - ids[1] = Len(ids) - 1

SysfsFile(name, cpu) == [file |-> name, cpu |-> cpu]

\* ------------------------------------------------------------- Cpu::new

\* SmtEnabled as it would be if every value but "off" counted as SMT on.
SmtEnabledUnlessOff(status) == TrimEnd(status) # <<"o", "f", "f">>

\* main.rs:25
SmtEnabled(status) == TrimEnd(status) = <<"o", "n">>

\* main.rs:41-43, on the file's content: unwrap() panics on a missing '-' and
\* on a tail that does not parse.
get_cores(text) ==
    LET sp == SplitOnce(TrimEnd(text), "-") IN
    IF ~sp.some
    THEN [kind |-> "panic", val |-> 0]
    ELSE LET max == ParseU32(sp.tail) IN
         IF ~max.ok
         THEN [kind |-> "panic", val |-> 0]
         ELSE [kind |-> "Ok", val |-> max.val + 1]

\* min_cpu_id as it would be with max() in place of min().
max_cpu_id(text) ==
    LET pieces == Split(TrimEnd(text), ",")
        parsed == [i \in 1..Len(pieces) |-> ParseU32(pieces[i])]
    IN
    IF \E i \in 1..Len(pieces) : ~parsed[i].ok
    THEN [kind |-> "panic", val |-> 0]
    ELSE [kind |-> "Ok", val |-> -SeqMin([i \in 1..Len(pieces) |-> -parsed[i].val])]

\* main.rs:54-59, on the file's content.
min_cpu_id(text) ==
    LET pieces == Split(TrimEnd(text), ",")
        parsed == [i \in 1..Len(pieces) |-> ParseU32(pieces[i])]
    IN
    IF \E i \in 1..Len(pieces) : ~parsed[i].ok
    THEN [kind |-> "panic", val |-> 0]
    ELSE [kind |-> "Ok", val |-> SeqMin([i \in 1..Len(pieces) |-> parsed[i].val])]

\* main.rs:134
MsrPath(core) == <<"/dev/cpu/">> \o Decimal(core) \o <<"/msr">>

\* main.rs:133-136
MsrNew(core) == [path |-> MsrPath(core)]

\* main.rs:70-79
get_msr_info(count) == [core \in 0..(count - 1) |-> MsrNew(core)]

\* A function's exit: by a returned io::Error, or by a panic.
Exit(how) ==
    /\ outcome' = how
    /\ pc' = "exit"

\* main.rs:24-25
NewReadSmtControl ==
    /\ pc = "new"
    /\ \E text \in SmtControlFiles :
         /\ smt_status' = text
         /\ smt_enabled' = SmtEnabled(text)
    /\ fs_trace' = Append(fs_trace, SysfsFile("smt/control", -1))
    /\ pc' = "get_cores"
    /\ UNCHANGED <<outcome, cores_online, core_cpus_list, core_count,
                   physical_core_count, core_msr, cores, core_id>>
    /\ UNCHANGED power_vars

\* main.rs:24, read_to_string fails
NewReadSmtControlFails ==
    /\ pc = "new"
    /\ fs_trace' = Append(fs_trace, SysfsFile("smt/control", -1))
    /\ Exit("Err")
    /\ UNCHANGED <<smt_status, cores_online, core_cpus_list, smt_enabled, core_count,
                   physical_core_count, core_msr, cores, core_id>>
    /\ UNCHANGED power_vars

\* main.rs:39-44 and 27
GetCores ==
    /\ pc = "get_cores"
    /\ fs_trace' = Append(fs_trace, SysfsFile("online", -1))
    /\ \E text \in OnlineFiles :
         /\ cores_online' = text
         /\ LET r == get_cores(text) IN
            IF r.kind = "Ok"
            THEN /\ core_count' = r.val
                 /\ \E lowest \in Layouts(r.val) : core_cpus_list' = SiblingLists(lowest)
                 /\ pc' = "get_physical_cores"
                 /\ UNCHANGED outcome
            ELSE /\ Exit(r.kind)
                 /\ UNCHANGED <<core_count, core_cpus_list>>
    /\ UNCHANGED <<smt_status, smt_enabled, physical_core_count,
                   core_msr, cores, core_id>>
    /\ UNCHANGED power_vars

\* main.rs:40, read_to_string fails
GetCoresReadFails ==
    /\ pc = "get_cores"
    /\ fs_trace' = Append(fs_trace, SysfsFile("online", -1))
    /\ Exit("Err")
    /\ UNCHANGED <<smt_status, cores_online, core_cpus_list, smt_enabled, core_count,
                   physical_core_count, core_msr, cores, core_id>>
    /\ UNCHANGED power_vars

\* main.rs:47 and 63-67: SMT off
GetPhysicalCoresSmtOff ==
    /\ pc = "get_physical_cores"
    /\ ~smt_enabled
    /\ physical_core_count' = core_count
    /\ pc' = "get_msr_info"
    /\ UNCHANGED <<outcome, smt_status, cores_online, core_cpus_list, fs_trace,
                   smt_enabled, core_count, core_msr, cores, core_id>>
    /\ UNCHANGED power_vars

\* main.rs:49-61: one iteration over a comma-separated sibling list
GetPhysicalCoresRead ==
    /\ pc = "get_physical_cores"
    /\ smt_enabled
    /\ core_id < core_count
    /\ fs_trace' = Append(fs_trace, SysfsFile("core_cpus_list", core_id))
    /\ LET r == min_cpu_id(CpusListFile(core_cpus_list[core_id])) IN
         /\ r.kind = "Ok"
         /\ cores' = cores \cup {r.val}
    /\ core_id' = core_id + 1
    /\ UNCHANGED <<pc, outcome, smt_status, cores_online, core_cpus_list, smt_enabled,
                   core_count, physical_core_count, core_msr>>
    /\ UNCHANGED power_vars

\* main.rs:50-59: a sibling list the kernel wrote in range form makes
\* parse().unwrap() panic
GetPhysicalCoresBadList ==
    /\ pc = "get_physical_cores"
    /\ smt_enabled
    /\ core_id < core_count
    /\ fs_trace' = Append(fs_trace, SysfsFile("core_cpus_list", core_id))
    /\ IsRun(core_cpus_list[core_id])
    /\ LET ids == core_cpus_list[core_id]
           r == min_cpu_id(RangeFile(ids[1], ids[Len(ids)]))
       IN /\ r.kind # "Ok"
          /\ Exit(r.kind)
    /\ UNCHANGED <<smt_status, cores_online, core_cpus_list, smt_enabled, core_count,
                   physical_core_count, core_msr, cores, core_id>>
    /\ UNCHANGED power_vars

\* main.rs:50-53, read_to_string fails
GetPhysicalCoresReadFails ==
    /\ pc = "get_physical_cores"
    /\ smt_enabled
    /\ core_id < core_count
    /\ fs_trace' = Append(fs_trace, SysfsFile("core_cpus_list", core_id))
    /\ Exit("Err")
    /\ UNCHANGED <<smt_status, cores_online, core_cpus_list, smt_enabled, core_count,
                   physical_core_count, core_msr, cores, core_id>>
    /\ UNCHANGED power_vars

\* main.rs:62 and 67: the loop is over
GetPhysicalCoresDone ==
    /\ pc = "get_physical_cores"
    /\ smt_enabled
    /\ core_id = core_count
    /\ physical_core_count' = Cardinality(cores)
    /\ pc' = "get_msr_info"
    /\ UNCHANGED <<outcome, smt_status, cores_online, core_cpus_list, fs_trace,
                   smt_enabled, core_count, core_msr, cores, core_id>>
    /\ UNCHANGED power_vars

\* main.rs:29-36
GetMsrInfo ==
    /\ pc = "get_msr_info"
    /\ core_msr' = get_msr_info(physical_core_count)
    /\ outcome' = "Ok"
    /\ pc' = "constructed"
    /\ UNCHANGED <<smt_status, cores_online, core_cpus_list, fs_trace, smt_enabled,
                   core_count, physical_core_count, cores, core_id>>
    /\ UNCHANGED power_vars

\* ------------------------------------------------------------- f64

RECURSIVE Gcd(_, _)
Gcd(a, b) == IF b = 0 THEN a ELSE Gcd(b, a % b)

Abs(x) == IF x < 0 THEN -x ELSE x

\* The rational n/d (d # 0) in lowest terms with a positive denominator.
Rat(n, d) ==
    LET g == Gcd(Abs(n), Abs(d))
        sgn == IF d < 0 THEN -1 ELSE 1
    IN [k |-> "num", n |-> sgn * (n \div g), d |-> Abs(d) \div g]

FromInt(x) == [k |-> "num", n |-> x, d |-> 1]
Inf(sgn) == [k |-> "inf", n |-> sgn, d |-> 0]
NaN == [k |-> "nan", n |-> 0, d |-> 0]
NoValue == [k |-> "none", n |-> 0, d |-> 0]

Sign(a) == IF a.n > 0 THEN 1 ELSE IF a.n < 0 THEN -1 ELSE 0

FNeg(a) == IF a.k = "nan" THEN NaN ELSE [a EXCEPT !.n = -a.n]

FAdd(a, b) ==
    IF a.k = "nan" \/ b.k = "nan" THEN NaN
    ELSE IF a.k = "inf" /\ b.k = "inf" THEN (IF a.n = b.n THEN a ELSE NaN)
    ELSE IF a.k = "inf" THEN a
    ELSE IF b.k = "inf" THEN b
    ELSE LET l == (a.d \div Gcd(a.d, b.d)) * b.d IN
         Rat(a.n * (l \div a.d) + b.n * (l \div b.d), l)

FSub(a, b) == FAdd(a, FNeg(b))

FMul(a, b) ==
    IF a.k = "nan" \/ b.k = "nan" THEN NaN
    ELSE IF a.k = "inf" \/ b.k = "inf"
         THEN (IF Sign(a) * Sign(b) = 0 THEN NaN ELSE Inf(Sign(a) * Sign(b)))
    ELSE Rat(a.n * b.n, a.d * b.d)

FDiv(a, b) ==
    IF a.k = "nan" \/ b.k = "nan" THEN NaN
    ELSE IF a.k = "inf"
         THEN (IF b.k = "inf" THEN NaN ELSE Inf(IF b.n < 0 THEN -a.n ELSE a.n))
    ELSE IF b.k = "inf" THEN FromInt(0)
    ELSE IF b.n = 0 THEN (IF a.n = 0 THEN NaN ELSE Inf(Sign(a)))
    ELSE Rat(a.n * b.d, a.d * b.n)

\* x < 0.0
FNegative(a) == a.k \in {"num", "inf"} /\ a.n < 0

RECURSIVE Pow2(_)
Pow2(e) == IF e = 0 THEN 1 ELSE 2 * Pow2(e - 1)

RECURSIVE BitAnd(_, _)
BitAnd(a, b) ==
    IF a = 0 \/ b = 0 THEN 0
    ELSE (a % 2) * (b % 2) + 2 * BitAnd(a \div 2, b \div 2)

\* ------------------------------------------------------------- Msr

\* main.rs:128-130: the offsets exceed 2^31 and are kept as their hex text.
POWER_UNIT_OFFSET == "0xC0010299"
CORE_ENERGY_OFFSET == "0xC001029A"
PACKAGE_ENERGY_OFFSET == "0xC001029B"

\* main.rs:131: 0x1F00
ENERGY_UNIT_MASK == 7936

\* Values of the power-unit MSR: 0xA1003 (a Ryzen's: 2^-16 J), 0x0E00 (2^-14 J),
\* 0x2100 (2^-1 J, a bit above the field set), 0x0003 (1 J, bits below it set).
PowerUnitRegs == {659459, 3584, 8448, 3}

\* Raw values an energy counter may show at a read.  Counters wrap, so a later
\* read may show less than an earlier one.
RawCounters == {100, 150}

\* Duration: whole seconds and the milliseconds beyond them.
DurationFromSecs(secs) == [secs |-> secs, millis |-> 0]

Durations ==
    { [secs |-> 0, millis |-> 0],
      [secs |-> 0, millis |-> 500],
      [secs |-> 1, millis |-> 0],
      [secs |-> 1, millis |-> 500],
      [secs |-> 2, millis |-> 0] }

\* Duration::as_secs: the whole seconds.
AsSecs(d) == d.secs

AsMillis(d) == d.secs * 1000 + d.millis

\* main.rs:152-153, on the register's value
energy_unit(units) ==
    LET unit == BitAnd(units, ENERGY_UNIT_MASK) \div 256 IN
    Rat(1, Pow2(unit))

\* main.rs:140 and 146: raw as f64 * energy_unit
Energy(counter, units) == FMul(FromInt(counter), energy_unit(units))

\* How read_register fails (main.rs:157-161): File::open does, or read_exact
\* finds fewer than 8 bytes.
ReadErrors == {"open_err", "short_read"}

Event(kind, path, offset, value) ==
    [kind |-> kind, path |-> path, offset |-> offset, value |-> value]

\* ------------------------------------------------------------- Cpu::power

\* The keys of the register map in BTreeMap order.
MsrKeys == Ascending(DOMAIN core_msr)

\* CursorKey as it would be if package_energy took the map's last entry.
CursorKeyPackageLast ==
    IF cursor.stage = "package" THEN MsrKeys[Len(MsrKeys)] ELSE MsrKeys[cursor.at]

\* The register file the read in progress opens: package_energy takes the
\* first entry of the map's iterator (main.rs:82-87), core_energy each entry in
\* turn (main.rs:93-96).
CursorKey == MsrKeys[cursor.at]

CursorOffset ==
    IF cursor.stage = "package" THEN PACKAGE_ENERGY_OFFSET ELSE CORE_ENERGY_OFFSET

NoSample ==
    [package_before |-> NoValue, core_before |-> <<>>,
     package_after |-> NoValue, core_after |-> <<>>]

NoResult == [package |-> NoValue, cores |-> <<>>]

\* The sample with the energy e just computed put in its place.
Store(e) ==
    IF cursor.stage = "package"
    THEN (IF cursor.phase = "before"
          THEN [sample EXCEPT !.package_before = e]
          ELSE [sample EXCEPT !.package_after = e])
    ELSE (IF cursor.phase = "before"
          THEN [sample EXCEPT !.core_before = (CursorKey :> e) @@ @]
          ELSE [sample EXCEPT !.core_after = (CursorKey :> e) @@ @])

\* UnwrapErr as it would be if a failed read were tried again.
UnwrapErrRetried ==
    /\ UNCHANGED <<outcome, pc, cursor, raw, sample>>

\* main.rs:85 and 95: unwrap() on the Err of a register read panics.
UnwrapErr ==
    /\ outcome' = "panic"
    /\ pc' = "exit"
    /\ UNCHANGED <<cursor, raw, sample>>

\* main.rs:99-100: the call, with its argument
PowerCall ==
    /\ pc = "constructed"
    /\ \E d \in Durations : duration' = d
    /\ cursor' = [phase |-> "before", stage |-> "package", at |-> 1]
    /\ outcome' = "running"
    /\ pc' = "read_counter"
    /\ UNCHANGED <<power_unit_reg, raw, sample, result, trace, total>>
    /\ UNCHANGED topology_vars

\* main.rs:139 and 145 (read_register, main.rs:156-165)
ReadCounter ==
    /\ pc = "read_counter"
    /\ \E v \in RawCounters :
         /\ raw' = v
         /\ trace' = Append(trace, Event("read", core_msr[CursorKey].path, CursorOffset, v))
    /\ pc' = "read_unit"
    /\ UNCHANGED <<outcome, power_unit_reg, duration, cursor, sample, result, total>>
    /\ UNCHANGED topology_vars

\* main.rs:139 and 145: the device does not open, or holds fewer than 8 bytes
ReadCounterFails ==
    /\ pc = "read_counter"
    /\ \E err \in ReadErrors :
         trace' = Append(trace, Event(err, core_msr[CursorKey].path, CursorOffset, 0))
    /\ UnwrapErr
    /\ UNCHANGED <<power_unit_reg, duration, result, total>>
    /\ UNCHANGED topology_vars

\* main.rs:140 and 146 (energy_unit, main.rs:150-154), then the caller's next step
ReadUnit ==
    /\ pc = "read_unit"
    /\ trace' = Append(trace, Event("read", core_msr[CursorKey].path,
                                    POWER_UNIT_OFFSET, power_unit_reg))
    /\ sample' = Store(Energy(raw, power_unit_reg))
    /\ IF cursor.stage = "package"
       THEN /\ cursor' = [cursor EXCEPT !.stage = "core", !.at = 1]
            /\ pc' = "read_counter"
       ELSE IF cursor.at < Len(MsrKeys)
       THEN /\ cursor' = [cursor EXCEPT !.at = @ + 1]
            /\ pc' = "read_counter"
       ELSE /\ UNCHANGED cursor
            /\ pc' = IF cursor.phase = "before" THEN "sleep" ELSE "compute"
    /\ UNCHANGED <<outcome, power_unit_reg, duration, raw, result, total>>
    /\ UNCHANGED topology_vars

\* main.rs:151: the device does not open, or holds fewer than 8 bytes
ReadUnitFails ==
    /\ pc = "read_unit"
    /\ \E err \in ReadErrors :
         trace' = Append(trace, Event(err, core_msr[CursorKey].path,
                                      POWER_UNIT_OFFSET, 0))
    /\ UnwrapErr
    /\ UNCHANGED <<power_unit_reg, duration, result, total>>
    /\ UNCHANGED topology_vars

\* main.rs:103
Sleep ==
    /\ pc = "sleep"
    /\ trace' = Append(trace, Event("sleep", <<>>, "", AsMillis(duration)))
    /\ cursor' = [phase |-> "after", stage |-> "package", at |-> 1]
    /\ pc' = "read_counter"
    /\ UNCHANGED <<outcome, power_unit_reg, duration, raw, sample, result, total>>
    /\ UNCHANGED topology_vars

\* main.rs:108
DurationSeconds(d) == FromInt(AsSecs(d))

\* main.rs:110
PackageWatts(s, d) ==
    FDiv(FSub(s.package_after, s.package_before), DurationSeconds(d))

\* main.rs:112-116: the two maps zipped in key order
CoresWatts(s, d) ==
    LET kb == Ascending(DOMAIN s.core_before)
        ka == Ascending(DOMAIN s.core_after)
        n == IF Len(kb) < Len(ka) THEN Len(kb) ELSE Len(ka)
    IN [core \in {kb[i] : i \in 1..n} |->
          LET i == CHOOSE j \in 1..n : kb[j] = core IN
          FDiv(FSub(s.core_after[ka[i]], s.core_before[kb[i]]), DurationSeconds(d))]

\* main.rs:108-118
PowerCompute ==
    /\ pc = "compute"
    /\ result' = [package |-> PackageWatts(sample, duration),
                  cores |-> CoresWatts(sample, duration)]
    /\ pc' = "report"
    /\ UNCHANGED <<outcome, power_unit_reg, duration, cursor, raw, sample, trace, total>>
    /\ UNCHANGED topology_vars

\* ------------------------------------------------------------- main

RECURSIVE SumOver(_, _)
\* main.rs:175-180: core_sum, added up in key order
SumOver(f, keys) ==
    IF keys = <<>> THEN FromInt(0)
    ELSE FAdd(SumOver(f, SubSeq(keys, 1, Len(keys) - 1)), f[keys[Len(keys)]])

\* main.rs:184: the u32 division comes first, then the cast
CoresTotal(core_sum, logical, physical) ==
    FMul(core_sum, FromInt(logical \div physical))

\* main.rs:171-185: main samples over one second
MainReport ==
    /\ pc = "report"
    /\ duration = DurationFromSecs(1)
    /\ total' = CoresTotal(SumOver(result.cores, Ascending(DOMAIN result.cores)),
                           core_count, physical_core_count)
    /\ outcome' = "Ok"
    /\ pc' = "exit"
    /\ UNCHANGED <<power_unit_reg, duration, cursor, raw, sample, result, trace>>
    /\ UNCHANGED topology_vars

\* The state of the power sampler before Cpu::power is called.
PowerIdle ==
    /\ duration = [secs |-> 0, millis |-> 0]
    /\ cursor = [phase |-> "none", stage |-> "none", at |-> 0]
    /\ raw = 0
    /\ sample = NoSample
    /\ result = NoResult
    /\ trace = <<>>
    /\ total = NoValue

TopologyInit ==
    /\ pc = "new"
    /\ outcome = "running"
    /\ smt_status = <<>>
    /\ cores_online = <<>>
    /\ core_cpus_list = <<>>
    /\ fs_trace = <<>>
    /\ smt_enabled = FALSE
    /\ core_count = 0
    /\ physical_core_count = 0
    /\ core_msr = <<>>
    /\ cores = {}
    /\ core_id = 0
    /\ power_unit_reg = 0
    /\ PowerIdle

TopologyNext ==
    \/ NewReadSmtControl
    \/ NewReadSmtControlFails
    \/ GetCores
    \/ GetCoresReadFails
    \/ GetPhysicalCoresSmtOff
    \/ GetPhysicalCoresRead
    \/ GetPhysicalCoresBadList
    \/ GetPhysicalCoresReadFails
    \/ GetPhysicalCoresDone
    \/ GetMsrInfo

\* Cpu::new, from the call to its return.
SpecTopology == TopologyInit /\ [][TopologyNext]_vars

\* A Cpu as Cpu::new builds it from `logical` online cores folded by `lowest`,
\* with SMT on or off.
Constructed(smt, logical, lowest) ==
    LET mins == { lowest[c] : c \in DOMAIN lowest }
        physical == IF smt THEN Cardinality(mins) ELSE logical
    IN
    /\ smt_status = IF smt THEN <<"o", "n", "\n">> ELSE <<"o", "f", "f", "\n">>
    /\ cores_online = RangeFile(0, logical - 1)
    /\ core_cpus_list = SiblingLists(lowest)
    /\ fs_trace = <<SysfsFile("smt/control", -1), SysfsFile("online", -1)>>
                  \o (IF smt
                      THEN [i \in 1..logical |-> SysfsFile("core_cpus_list", i - 1)]
                      ELSE <<>>)
    /\ smt_enabled = smt
    /\ core_count = logical
    /\ physical_core_count = physical
    /\ core_msr = get_msr_info(physical)
    /\ cores = IF smt THEN mins ELSE {}
    /\ core_id = IF smt THEN logical ELSE 0

\* `logical` cores folded onto `physical` physical cores: the cores beyond the
\* first `physical` ones are siblings of the last of those.
Folded(logical, physical) ==
    [c \in 0..(logical - 1) |-> IF c < physical THEN c ELSE physical - 1]

Init ==
    /\ pc = "constructed"
    /\ outcome = "Ok"
    /\ \E physical \in 1..MaxPhysical :
         \/ Constructed(FALSE, physical, Folded(physical, physical))
         \/ \E logical \in physical..(2 * physical) :
              Constructed(TRUE, logical, Folded(logical, physical))
    /\ power_unit_reg \in PowerUnitRegs
    /\ PowerIdle

Next ==
    \/ PowerCall
    \/ ReadCounter
    \/ ReadCounterFails
    \/ ReadUnit
    \/ ReadUnitFails
    \/ Sleep
    \/ PowerCompute
    \/ MainReport

\* Cpu::power on a constructed Cpu, then main's report.
Spec == Init /\ [][Next]_vars

\* ------------------------------------------------------------- claims

\* Cpu::power has been called.
PowerCalled == cursor.phase # "none"

\* Cpu::power has returned its pair.
PowerReturned == result # NoResult

\* The register reads of the trace, failed ones included.
RegisterReads == { i \in 1..Len(trace) : trace[i].kind \in {"read"} \cup ReadErrors }

\* The requested duration in seconds, fractions included.
RequestedSeconds(d) == Rat(AsMillis(d), 1000)

\* C1: power called with a zero duration is rejected before any register is
\* read, and returns no wattage.
C1_ZeroDurationRejected ==
    (PowerCalled /\ AsMillis(duration) = 0) =>
        /\ RegisterReads = {}
        /\ ~PowerReturned

\* C2: for every positive duration, whole or fractional, the package figure and
\* every core's figure are the energy difference over the requested seconds.
C2_WattsOverRequestedSeconds ==
    (PowerReturned /\ AsMillis(duration) > 0) =>
        /\ result.package =
             FDiv(FSub(sample.package_after, sample.package_before),
                  RequestedSeconds(duration))
        /\ \A k \in DOMAIN core_msr :
             result.cores[k] =
               FDiv(FSub(sample.core_after[k], sample.core_before[k]),
                    RequestedSeconds(duration))

\* The canonical index of every physical core: the lowest id of each sibling
\* list with SMT on, every logical id with SMT off.
CanonicalIndices ==
    IF smt_enabled
    THEN { SeqMin(core_cpus_list[c]) : c \in 0..(core_count - 1) }
    ELSE 0..(core_count - 1)

\* C3: the register map of a constructed Cpu is keyed by the canonical indices
\* of the physical cores, and the entry of key k opens /dev/cpu/{k}/msr.
C3_KeysAreMinimumSiblingIds ==
    pc = "constructed" =>
        /\ DOMAIN core_msr = CanonicalIndices
        /\ \A k \in DOMAIN core_msr : core_msr[k].path = MsrPath(k)

\* C4: a failed register read is the last event of the call: the call ends
\* there by a panic, with no later read, no result and no report.
C4_ReadFailureAborts ==
    \A i \in 1..Len(trace) :
        trace[i].kind \in ReadErrors =>
            /\ i = Len(trace)
            /\ outcome = "panic"
            /\ pc = "exit"
            /\ result = NoResult
            /\ total = NoValue

\* C4's case: the core-energy read of the second core finds fewer than 8 bytes
\* in the after sample.
C4_Witness ==
    /\ trace # <<>>
    /\ trace[Len(trace)].kind = "short_read"
    /\ trace[Len(trace)].offset = CORE_ENERGY_OFFSET
    /\ cursor = [phase |-> "after", stage |-> "core", at |-> 2]
    /\ outcome = "panic"

\* C5: with SMT on, get_physical_cores collects the minimum id of every logical
\* core's sibling list and returns the number of distinct ones, which is at
\* most the logical core count.
C5_PhysicalCoresCountsDistinctMinima ==
    (pc \in {"get_msr_info", "constructed"} /\ smt_enabled) =>
        /\ cores = { SeqMin(core_cpus_list[c]) : c \in 0..(core_count - 1) }
        /\ physical_core_count =
             Cardinality({ SeqMin(core_cpus_list[c]) : c \in 0..(core_count - 1) })
        /\ physical_core_count <= core_count

\* C5's case: four logical cores in the pairs {0,2} and {1,3} are two physical cores.
C5_Witness ==
    /\ pc = "get_msr_info"
    /\ smt_enabled
    /\ core_count = 4
    /\ core_cpus_list = (0 :> <<0, 2>>) @@ (1 :> <<1, 3>>) @@ (2 :> <<0, 2>>) @@ (3 :> <<1, 3>>)
    /\ physical_core_count = 2

\* C6: when the SMT control file does not say "on", no sibling-list file is
\* read, discovery cannot fail after the online range is parsed, and the
\* physical core count is the logical core count.
C6_SmtOffSkipsSiblingLists ==
    TrimEnd(smt_status) # <<"o", "n">> =>
        /\ \A i \in 1..Len(fs_trace) : fs_trace[i].file # "core_cpus_list"
        /\ pc \in {"get_msr_info", "constructed"} => physical_core_count = core_count
        /\ core_count > 0 => pc # "exit"

\* C6's case: "notsupported", four online cores.
C6_Witness ==
    /\ pc = "constructed"
    /\ smt_status = <<"n", "o", "t", "s", "u", "p", "p", "o", "r", "t", "e", "d", "\n">>
    /\ core_count = 4
    /\ physical_core_count = 4

\* get_cores has run.
GetCoresDone == pc \notin {"new", "get_cores"} /\ cores_online # <<>>

\* C7: get_cores maps "0-N" to N+1 and answers a malformed descriptor with an
\* error value.
C7_OnlineRangeParsedOrError ==
    GetCoresDone =>
        /\ \A n \in 0..MaxCoreId :
             cores_online = RangeFile(0, n) => core_count = n + 1
        /\ cores_online \in MalformedOnlineFiles => outcome = "Err"

\* No core counter showed less in the after sample than in the before sample.
NoCoreWrapped ==
    \A k \in DOMAIN result.cores : ~FNegative(result.cores[k])

\* C8: the Cores Total figure is the sum of the per-core figures times the
\* ratio of logical to physical cores, whole or not.  The samples are those in
\* which no core counter wrapped.
C8_CoresTotalScalesByRatio ==
    (total # NoValue /\ NoCoreWrapped) =>
        total = FMul(SumOver(result.cores, Ascending(DOMAIN result.cores)),
                     Rat(core_count, physical_core_count))

\* C9: no figure power returns is negative.  The durations are those of a
\* whole, positive number of seconds, where the division is not degenerate.
C9_NoNegativeWattage ==
    (PowerReturned /\ AsSecs(duration) >= 1 /\ duration.millis = 0) =>
        /\ ~FNegative(result.package)
        /\ \A k \in DOMAIN result.cores : ~FNegative(result.cores[k])

\* What a trace shows of each event: the device and register of a read, the
\* length of a sleep.
Shown(e) ==
    [kind |-> e.kind, path |-> e.path, offset |-> e.offset,
     value |-> IF e.kind = "sleep" THEN e.value ELSE 0]

RECURSIVE CoreReadsOf(_)
\* The core-energy reads of one sample, each with its unit read, in key order.
CoreReadsOf(keys) ==
    IF keys = <<>> THEN <<>>
    ELSE << Shown(Event("read", MsrPath(keys[1]), CORE_ENERGY_OFFSET, 0)),
            Shown(Event("read", MsrPath(keys[1]), POWER_UNIT_OFFSET, 0)) >>
         \o CoreReadsOf(Tail(keys))

\* One sample: the package counter on the lowest key, then every core.
SampleReads ==
    << Shown(Event("read", MsrPath(SetMin(DOMAIN core_msr)), PACKAGE_ENERGY_OFFSET, 0)),
       Shown(Event("read", MsrPath(SetMin(DOMAIN core_msr)), POWER_UNIT_OFFSET, 0)) >>
    \o CoreReadsOf(Ascending(DOMAIN core_msr))

\* The energy the trace shows for the n-th core-energy read of core k.
TracedCoreEnergy(k, n) ==
    LET at == { i \in 1..Len(trace) :
                  /\ trace[i].kind = "read"
                  /\ trace[i].path = MsrPath(k)
                  /\ trace[i].offset = CORE_ENERGY_OFFSET }
        i == IF n = 1 THEN SetMin(at) ELSE SetMin(at \ {SetMin(at)})
    IN Energy(trace[i].value, trace[i + 1].value)

\* C10: a completed call read one sample, slept for the duration, and read the
\* same sample again; its per-core result has the register map's keys and
\* pairs each core's own two readings.
C10_SampleSleepSample ==
    PowerReturned =>
        /\ [i \in 1..Len(trace) |-> Shown(trace[i])] =
             SampleReads
             \o <<Shown(Event("sleep", <<>>, "", AsMillis(duration)))>>
             \o SampleReads
        /\ DOMAIN result.cores = DOMAIN core_msr
        /\ \A k \in DOMAIN core_msr :
             result.cores[k] =
               FDiv(FSub(TracedCoreEnergy(k, 2), TracedCoreEnergy(k, 1)),
                    DurationSeconds(duration))

\* C10's case: a completed call on two physical cores whose second core
\* measured another difference than the first.
C10_Witness ==
    /\ PowerReturned
    /\ Cardinality(DOMAIN core_msr) = 2
    /\ Len(trace) = 13
    /\ result.cores[0] # result.cores[1]

====
